---- MODULE Spec2Model ----
(***************************************************************************)
(* Model of the conversational turn pipeline of the AI travel planner      *)
(* backend: the POST /api/chat/message handler (app/api/chat.py), the      *)
(* conversation orchestrator (app/services/conversation.py), the context   *)
(* manager (app/services/context/manager.py) and the retrieval service     *)
(* (app/services/rag/retrieval.py).                                        *)
(*                                                                         *)
(* Request handlers are coroutines / worker processes that share the       *)
(* record store.  A handler reads the Conversation row into its own ORM    *)
(* session, works on that private copy across the external calls           *)
(* (embedding, vector index, language model) and writes the changed        *)
(* columns back with db.commit().  Steps of different handlers interleave  *)
(* at every database statement and every external call.                    *)
(*                                                                         *)
(* Distances, similarities and thresholds are in hundredths (0.4 -> 40).   *)
(***************************************************************************)
EXTENDS Integers, Sequences, FiniteSets, TLC

VARIABLES
    conversations,   \* the "conversations" table: sequence of rows, id = index
    pc,              \* per handler: position in send_message
    request,         \* per handler: the ChatRequest being served
    conversation,    \* per handler: the Conversation object loaded in its session
    created,         \* per handler: whether this request inserted the row
    updated_context, \* per handler: outcome of step 1 of process_message
    returned,        \* the request that the last step finished, if it finished one
    fn_in,           \* pure-function harness: the inputs of the call
    fn_out           \* pure-function harness: the value returned

vars == <<conversations, pc, request, conversation, created, updated_context,
          returned, fn_in, fn_out>>

(***************************************************************************)
(* Bounds of the model.                                                    *)
(***************************************************************************)
MaxTurns == 17        \* a conversation of 2*MaxTurns messages takes no more turns
MaxFactTurns == 1     \* only the first MaxFactTurns turns of a conversation carry facts
MaxFactDepth == 2     \* turns taken by a conversation that carries facts
MaxDupTurns == 2      \* turns taken per row once a trip has two conversation rows
MaxCands == 3         \* candidates in an index response (function harness)
MaxK == 3             \* largest n_results tried (function harness)
MaxLen == 7           \* longest history tried (function harness)
MaxW == 7             \* largest window_size tried (function harness)
MaxCount == 16        \* largest message count and index tried (function harness)
MaxTexts == 2         \* user texts in a history (function harness)

(***************************************************************************)
(* Program constants.                                                      *)
(***************************************************************************)
WindowSize == 10
SummarizeThreshold == 15
RagTopK == 10
RagSimilarityThreshold == 40

context_manager == [window_size |-> WindowSize,
                    summarize_threshold |-> SummarizeThreshold]

Procs == {1, 2}

\* The trips table: one trip, owned by user 1.  Trip 2 does not exist.
Trips == {[id |-> 1, user_id |-> 1]}
TripIds == {1, 2}
UserIds == {1, 2}

Min(a, b) == IF a <= b THEN a ELSE b
Max(a, b) == IF a >= b THEN a ELSE b

(***************************************************************************)
(* Texts.  A text is the sequence of its whitespace-separated words; a     *)
(* word is [pre, w, cap, p]: a "$" in front or nothing, the letters or     *)
(* digits in lower case, whether the first letter is a capital, and the    *)
(* punctuation mark that follows or nothing.  Texts are single-spaced and  *)
(* carry no leading or trailing blank, so " ".join(...) is concatenation.  *)
(***************************************************************************)
Tok(w) == [pre |-> "", w |-> w, cap |-> FALSE, p |-> ""]
Cap(w) == [pre |-> "", w |-> w, cap |-> TRUE, p |-> ""]
Dollar(w) == [pre |-> "$", w |-> w, cap |-> FALSE, p |-> ""]
Then(tok, p) == [tok EXCEPT !.p = p]

\* str.lower() and str.title() on a text
Lower(text) == [i \in 1..Len(text) |-> [text[i] EXCEPT !.cap = FALSE]]
Title(text) == [i \in 1..Len(text) |-> [text[i] EXCEPT !.cap = TRUE]]

\* int(value) for the strings of digits of the vocabulary
IntOf == [n \in {"2", "5", "2000"} |-> CASE n = "2" -> 2 [] n = "5" -> 5
                                          [] n = "2000" -> 2000]
IsDigits(w) == w \in DOMAIN IntOf
TwoLetters == {"to", "in", "is", "me", "at", "or", "on"}

\* Pairs <<word, part>> of the vocabulary in which `part` is a proper suffix,
\* a proper prefix, or a proper substring of `word`.
ProperSuffix == {<<"what", "at">>, <<"paris", "is">>}
ProperPrefix == {<<"weeks", "week">>, <<"days", "day">>, <<"museums", "museum">>,
                 <<"restaurants", "restaurant">>, <<"tickets", "ticket">>}
ProperSubstring == ProperSuffix \cup ProperPrefix
EndsWith(w, part) == w = part \/ <<w, part>> \in ProperSuffix
StartsWith(w, part) == w = part \/ <<w, part>> \in ProperPrefix
Contains(w, part) == w = part \/ <<w, part>> \in ProperSubstring

\* The words of a text together with their proper substrings.
Parts(text) ==
    LET words == {text[i].w : i \in 1..Len(text)}
    IN words \cup {x[2] : x \in {y \in ProperSubstring : y[1] \in words}}

\* The words of a text (not followed by a mark) together with their suffixes.
Endings(text) ==
    LET words == {text[i].w : i \in {j \in 1..Len(text) : text[j].p = ""}}
    IN words \cup {x[2] : x \in {y \in ProperSuffix : y[1] \in words}}

\* `pattern in text` for a pattern of one or more words separated by blanks
ContainsPattern(text, pattern) ==
    \E i \in 1..Len(text) :
        /\ i + Len(pattern) - 1 <= Len(text)
        /\ IF Len(pattern) = 1 THEN Contains(text[i].w, pattern[1])
           ELSE \A k \in 1..Len(pattern) :
                LET t == text[i + k - 1]
                IN /\ k < Len(pattern) => t.p = ""
                   /\ k > 1 => t.pre = ""
                   /\ IF k = 1 THEN EndsWith(t.w, pattern[k])
                      ELSE IF k = Len(pattern) THEN StartsWith(t.w, pattern[k])
                      ELSE t.w = pattern[k]

Hello == <<Tok("hello")>>
VisitParis == <<Tok("visit"), Cap("paris")>>
BudgetText == <<Tok("budget"), Dollar("2000")>>
AWeekTrip == <<Tok("a"), Tok("week"), Tok("trip")>>
ForFiveDays == <<Tok("for"), Tok("5"), Tok("days")>>
TwoWeeks == <<Tok("2"), Tok("weeks")>>
INeedFive == <<Cap("i"), Tok("need"), Tok("5")>>
\* "I want to visit Paris for 5 days with a $2000 budget, I love museums and
\* food"
Scenario ==
    <<Cap("i"), Tok("want"), Tok("to"), Tok("visit"), Cap("paris"), Tok("for"),
      Tok("5"), Tok("days"), Tok("with"), Tok("a"), Dollar("2000"),
      Then(Tok("budget"), ","), Cap("i"), Tok("love"), Tok("museums"),
      Tok("and"), Tok("food")>>

\* Texts sent in the turns of the handler model.
Texts == {Hello, VisitParis, BudgetText, AWeekTrip}
PlainText == Hello
Reply == "reply"

UserMsg(text) == [role |-> "user", content |-> text]
AssistantMsg(text) == [role |-> "assistant", content |-> text]

EmptyContext == [k \in {} |-> ""]

\* {**old, **new}
MergeDicts(old, new) ==
    [k \in (DOMAIN old) \cup (DOMAIN new) |->
        IF k \in DOMAIN new THEN new[k] ELSE old[k]]

\* summary column: NULL, the empty string, or a text produced by the model
\* from the first `upto` messages of the history it was given.
NoSummary == [text |-> "None", upto |-> 0]
EmptySummary == [text |-> "", upto |-> 0]
SummaryText(n) == [text |-> "summary", upto |-> n]
Truthy(summary) == summary.text # "None" /\ summary.text # ""

NoRequest == [message |-> <<>>, trip_id |-> 0, user_id |-> 0]
NoConversation == [id |-> 0, messages |-> <<>>, context |-> EmptyContext,
                   summary |-> NoSummary, message_count |-> 0,
                   last_summarized_index |-> 0]
NoResponse == [status |-> 0, message |-> "", conversation_id |-> 0]

(***************************************************************************)
(* Python slices with a possibly negative bound: s[i:] and s[:j].          *)
(***************************************************************************)
PyIndex(s, i) == IF i < 0 THEN Max(Len(s) + i, 0) ELSE Min(i, Len(s))
PySliceFrom(s, i) == SubSeq(s, PyIndex(s, i) + 1, Len(s))
PySliceTo(s, j) == SubSeq(s, 1, PyIndex(s, j))

(***************************************************************************)
(* ContextExtractor (app/services/context/extractor.py).  The regular      *)
(* expressions are matched word by word; a pattern whose literal words are *)
(* not in the vocabulary (a hyphenated "5-day", "dollars", "euros") cannot *)
(* match and is left out.                                                  *)
(***************************************************************************)
None == 0 - 1
NoDestination == <<>>

\* [A-Z][a-z]+ under re.IGNORECASE: a word of two or more letters
IsWord2(t) == t.pre = "" /\ ~IsDigits(t.w) /\ t.w \notin {"i", "a"}

\* ([A-Z][a-z]+(?:\s+[A-Z][a-z]+)*) from word i on, greedy: the index of the
\* last word taken (i - 1 if none); a punctuation mark ends the run.
RECURSIVE RunEnd(_, _)
RunEnd(text, i) ==
    IF i > Len(text) \/ ~IsWord2(text[i]) THEN i - 1
    ELSE IF text[i].p # "" THEN i
    ELSE RunEnd(text, i + 1)

\* match.group(1).strip(): the words i..j without the mark after the last
Group(text, i, j) == [k \in 1..(j - i + 1) |-> [text[i + k - 1] EXCEPT !.p = ""]]

KnownCities == {"paris", "tokyo", "rome"}
CityLen == [c \in KnownCities |-> IF c = "rome" THEN 4 ELSE 5]

\* The orders in which a process may iterate the set KNOWN_CITIES: the order
\* follows the string hashes, which are salted per process.
SetOrders ==
    {o \in [1..Cardinality(KnownCities) -> KnownCities] :
        \A c \in KnownCities : \E i \in DOMAIN o : o[i] = c}

\* The special cases equal title case except for "Rio de Janeiro".
_capitalize_city(city) == Title(city)

stop_words ==
    {"the", "a", "an", "and", "or", "for", "with", "about",
     "june", "july", "august", "september", "october", "november",
     "december", "january", "february", "march", "april", "may",
     "days", "weeks", "months", "day", "week", "month",
     "trip", "vacation", "holiday", "travel", "visit"}

_is_valid_destination(destination) ==
    IF destination = <<>> \/ (Len(destination) = 1 /\ destination[1].w \in TwoLetters)
    THEN FALSE
    ELSE IF Len(destination) = 1 /\ destination[1].w \in stop_words THEN FALSE
    ELSE IF Len(destination) = 1 /\ destination[1].w \in KnownCities THEN TRUE
    ELSE destination[1].cap

\* verb_patterns, in order: the word sequences that may precede the name
verb_patterns ==
    << {<<v>> : v \in {"visit", "visiting", "visited"}},
       {<<v, "to">> : v \in {"go", "going", "went"}},
       {<<v, "to">> : v \in {"travel", "traveling", "travelled"}},
       {<<v, x>> : v \in {"trip", "vacation", "holiday"}, x \in {"to", "in"}},
       {<<v, x, "to">> : v \in {"plan", "planning", "planned"},
                         x \in {"trip", "visit"}}
            \cup {<<v, "a", x, "to">> : v \in {"plan", "planning", "planned"},
                                        x \in {"trip", "visit"}},
       {<<v, "to">> \o x : v \in {"plan", "planning", "planned"},
                           x \in {<<"visit">>, <<"go", "to">>, <<"travel", "to">>}},
       {<<v, "to">> \o x : v \in {"want", "wanting", "wanted"},
                           x \in {<<"visit">>, <<"see">>, <<"explore">>,
                                  <<"go", "to">>}},
       {<<v>> : v \in {"explore", "exploring", "explored"}},
       {<<v>> : v \in {"see", "seeing", "saw"}},
       {<<v, x>> : v \in {"destination", "headed", "heading"},
                   x \in {"is", "to", "for"}},
       {<<v, "to">> : v \in {"fly", "flying", "flew"}} >>

\* The words of `lead`, each followed by whitespace, start at word i.
LeadAt(text, i, lead) ==
    /\ i + Len(lead) - 1 <= Len(text)
    /\ \A k \in 1..Len(lead) :
        LET t == text[i + k - 1]
        IN /\ t.p = ""
           /\ k > 1 => t.pre = ""
           /\ IF k = 1 THEN EndsWith(t.w, lead[k]) ELSE t.w = lead[k]

\* The first words of the patterns.
verb_heads == UNION {{lead[1] : lead \in verb_patterns[k]} :
                        k \in 1..Len(verb_patterns)}

\* re.search(pattern, text, re.IGNORECASE): the matches <<start, lead>>
VerbMatches(text, pattern) ==
    {m \in (1..Len(text)) \X pattern :
        /\ LeadAt(text, m[1], m[2])
        /\ RunEnd(text, m[1] + Len(m[2])) >= m[1] + Len(m[2])}

RECURSIVE VerbLoop(_, _)
VerbLoop(text, k) ==
    IF k > Len(verb_patterns) THEN NoDestination
    ELSE LET matches == VerbMatches(text, verb_patterns[k])
         IN IF matches = {} THEN VerbLoop(text, k + 1)
            ELSE LET match == CHOOSE m \in matches :
                                \A n \in matches : m[1] <= n[1]
                     first == match[1] + Len(match[2])
                     destination ==
                        _capitalize_city(Group(text, first, RunEnd(text, first)))
                 IN IF _is_valid_destination(destination) THEN destination
                    ELSE VerbLoop(text, k + 1)

\* No pattern matches a text in which no pattern starts.
_extract_with_verbs(text) ==
    IF Endings(text) \cap verb_heads = {} THEN NoDestination
    ELSE VerbLoop(text, 1)

\* prep_patterns: the prepositions and the words that may follow the name.
\* The alternatives "," "." "?" "!" and "$" need whitespace in front of them
\* and do not occur in single-spaced text.
prep_patterns ==
    << [heads |-> {"in", "at"}, stops |-> {"for", "during", "with", "and", "or"}],
       [heads |-> {"to", "from"}, stops |-> {"for", "and", "or"}] >>

\* Last words j of a name that starts after word i and is followed by a stop
PrepEnds(text, i, pattern) ==
    {j \in (i + 1)..(Len(text) - 1) :
        /\ \A k \in (i + 1)..j : IsWord2(text[k]) /\ text[k].p = ""
        /\ text[j + 1].pre = ""
        /\ \E stop \in pattern.stops : StartsWith(text[j + 1].w, stop)}

PrepStarts(text, pattern) ==
    {i \in 1..Len(text) :
        /\ text[i].p = ""
        /\ \E head \in pattern.heads : EndsWith(text[i].w, head)
        /\ PrepEnds(text, i, pattern) # {}}

RECURSIVE PrepLoop(_, _)
PrepLoop(text, k) ==
    IF k > Len(prep_patterns) THEN NoDestination
    ELSE LET starts == PrepStarts(text, prep_patterns[k])
         IN IF starts = {} THEN PrepLoop(text, k + 1)
            ELSE LET i == CHOOSE a \in starts : \A b \in starts : a <= b
                     ends == PrepEnds(text, i, prep_patterns[k])
                     j == CHOOSE a \in ends : \A b \in ends : a >= b
                     destination == _capitalize_city(Group(text, i + 1, j))
                 IN IF _is_valid_destination(destination) THEN destination
                    ELSE PrepLoop(text, k + 1)

prep_heads == UNION {prep_patterns[k].heads : k \in 1..Len(prep_patterns)}

_extract_with_prepositions(text) ==
    IF Endings(text) \cap prep_heads = {} THEN NoDestination
    ELSE PrepLoop(text, 1)

\* sorted(self.KNOWN_CITIES, key=len, reverse=True): a stable sort of the
\* set's iteration order, longest names first.
RECURSIVE SortedByLen(_, _)
SortedByLen(set_order, len) ==
    IF len = 0 THEN <<>>
    ELSE SelectSeq(set_order, LAMBDA c : CityLen[c] = len)
            \o SortedByLen(set_order, len - 1)

\* No city name of KnownCities is longer than 5 letters.
sorted_cities(set_order) == SortedByLen(set_order, 5)

_extract_known_cities(text, set_order) ==
    LET words == {text[i].w : i \in 1..Len(text)}
        mentioned == SelectSeq(sorted_cities(set_order),
                               LAMBDA city : city \in words)
    IN IF mentioned = <<>> THEN NoDestination
       ELSE _capitalize_city(<<Tok(mentioned[1])>>)

_extract_destination(full_text, set_order) ==
    LET by_verb == _extract_with_verbs(full_text)
        by_preposition == _extract_with_prepositions(full_text)
    IN IF by_verb # NoDestination THEN by_verb
       ELSE IF by_preposition # NoDestination THEN by_preposition
       ELSE _extract_known_cities(full_text, set_order)

word_to_num ==
    [n \in {"one", "two", "three", "four", "five", "six", "seven", "eight",
            "nine", "ten"} |->
        CASE n = "one" -> 1 [] n = "two" -> 2 [] n = "three" -> 3
          [] n = "four" -> 4 [] n = "five" -> 5 [] n = "six" -> 6
          [] n = "seven" -> 7 [] n = "eight" -> 8 [] n = "nine" -> 9
          [] n = "ten" -> 10]

\* Words i that hold a number and are followed by a word starting with `unit`
DigitsThen(text, unit) ==
    {i \in 1..(Len(text) - 1) :
        /\ IsDigits(text[i].w) /\ text[i].p = ""
        /\ text[i + 1].pre = "" /\ StartsWith(text[i + 1].w, unit)}

NumberWordThen(text, unit) ==
    {i \in 1..(Len(text) - 1) :
        /\ \E n \in DOMAIN word_to_num : EndsWith(text[i].w, n)
        /\ text[i].p = ""
        /\ text[i + 1].pre = "" /\ StartsWith(text[i + 1].w, unit)}

AThen(text, unit) ==
    {i \in 1..(Len(text) - 1) :
        /\ EndsWith(text[i].w, "a") /\ text[i].p = ""
        /\ text[i + 1].pre = "" /\ StartsWith(text[i + 1].w, unit)}

Leftmost(S) == CHOOSE a \in S : \A b \in S : a <= b

Returned(value) == [raised |-> FALSE, value |-> value]
Raised == [raised |-> TRUE, value |-> None]

\* duration_patterns are tried in order; the first that matches decides.  The
\* "a week" pattern has no group: match.lastindex is None and the comparison
\* None >= 1 raises TypeError.
_extract_duration(text) ==
    LET digit_days == DigitsThen(text, "day")
        word_days == NumberWordThen(text, "day")
        digit_weeks == DigitsThen(text, "week")
    IN IF digit_days # {} THEN Returned(IntOf[text[Leftmost(digit_days)].w])
       ELSE IF word_days # {}
       THEN Returned(word_to_num[
                CHOOSE n \in DOMAIN word_to_num :
                    EndsWith(text[Leftmost(word_days)].w, n)])
       ELSE IF AThen(text, "week") # {} THEN Raised
       ELSE IF digit_weeks # {}
       THEN Returned(IntOf[text[Leftmost(digit_weeks)].w] * 7)
       ELSE Returned(None)

budget_indicators == {"budget", "spend", "cost", "price", "afford",
                      "expensive", "cheap", "dollar", "euro"}

has_budget_context(text) ==
    \/ \E i \in 1..Len(text) : text[i].pre = "$"
    \/ Parts(text) \cap budget_indicators # {}

\* \$\s*([\d,]+): the amount, or None without a match
DollarAmount(text) ==
    LET S == {i \in 1..Len(text) : text[i].pre = "$" /\ IsDigits(text[i].w)}
    IN IF S = {} THEN None ELSE IntOf[text[Leftmost(S)].w]

\* keyword.*?...([\d,]+): the first run of digits and commas after the
\* keyword; a run that is a lone comma makes int("") raise ValueError, which
\* is caught, and the next pattern is tried.
KeywordAmount(text, keyword) ==
    LET K == {b \in 1..Len(text) :
                /\ Contains(text[b].w, keyword)
                /\ \/ text[b].p = ","
                   \/ \E i \in (b + 1)..Len(text) :
                        IsDigits(text[i].w) \/ text[i].p = ","}
    IN IF K = {} THEN None
       ELSE LET b == Leftmost(K)
            IN IF text[b].p = "," THEN None
               ELSE LET i == Leftmost({i \in (b + 1)..Len(text) :
                                    IsDigits(text[i].w) \/ text[i].p = ","})
                    IN IF IsDigits(text[i].w) THEN IntOf[text[i].w] ELSE None

_extract_budget(text) ==
    IF ~has_budget_context(text) THEN None
    ELSE LET amounts == <<DollarAmount(text), KeywordAmount(text, "budget"),
                          KeywordAmount(text, "spend")>>
             reasonable == SelectSeq(amounts,
                                LAMBDA budget : 100 <= budget /\ budget <= 100000)
         IN IF reasonable = <<>> THEN None ELSE reasonable[1]

interest_keywords ==
    << [interest |-> "museums",
        keywords |-> {"museum", "museums", "art", "gallery", "galleries"}],
       [interest |-> "food",
        keywords |-> {"food", "restaurant", "restaurants", "eating", "cuisine",
                      "dining", "foodie"}],
       [interest |-> "history",
        keywords |-> {"history", "historical", "castle", "monument", "heritage"}],
       [interest |-> "nature",
        keywords |-> {"nature", "hiking", "park", "parks", "beach", "outdoor"}],
       [interest |-> "nightlife",
        keywords |-> {"nightlife", "club", "clubs", "bar", "bars", "party"}],
       [interest |-> "shopping",
        keywords |-> {"shopping", "shop", "shops", "mall", "market", "markets"}],
       [interest |-> "culture",
        keywords |-> {"culture", "cultural", "local", "traditional"}],
       [interest |-> "adventure",
        keywords |-> {"adventure", "activities", "sports"}],
       [interest |-> "relaxation", keywords |-> {"relax", "spa", "peaceful"}],
       [interest |-> "architecture",
        keywords |-> {"architecture", "buildings", "monuments"}] >>

\* any(word in text for word in words)
AnyIn(words, parts) == words \cap parts # {}

_extract_interests(text) ==
    LET parts == Parts(text)
        found == SelectSeq(interest_keywords, LAMBDA e : AnyIn(e.keywords, parts))
    IN [i \in 1..Len(found) |-> found[i].interest]

_extract_travel_style(text) ==
    LET parts == Parts(text)
    IN IF AnyIn({"budget", "cheap", "affordable", "backpack"}, parts)
       THEN "budget"
       ELSE IF AnyIn({"luxury", "upscale", "premium", "5-star", "high-end"}, parts)
       THEN "luxury"
       ELSE IF AnyIn({"mid-range", "moderate", "comfortable"}, parts)
       THEN "mid-range"
       ELSE "None"

\* The dictionary with a key for every value that is truthy.
ContextOf(destination, duration, budget, interests, travel_style) ==
    LET keys == {k \in {"destination", "duration_days", "budget", "interests",
                        "travel_style"} :
                    CASE k = "destination" -> destination # NoDestination
                      [] k = "duration_days" -> duration # None /\ duration # 0
                      [] k = "budget" -> budget # None /\ budget # 0
                      [] k = "interests" -> interests # <<>>
                      [] k = "travel_style" -> travel_style # "None"}
    IN [k \in keys |->
            CASE k = "destination" -> destination
              [] k = "duration_days" -> duration
              [] k = "budget" -> budget
              [] k = "interests" -> interests
              [] k = "travel_style" -> travel_style]

\* " ".join of the contents of the user messages
RECURSIVE JoinUser(_)
JoinUser(messages) ==
    IF messages = <<>> THEN <<>>
    ELSE IF Head(messages).role = "user"
    THEN Head(messages).content \o JoinUser(Tail(messages))
    ELSE JoinUser(Tail(messages))

\* extract_context: [raised, value]; value is the dictionary returned, with
\* a key for every sub-extractor that found something.
extract_context(messages, set_order) ==
    LET full_text == JoinUser(messages)
        user_text_lower == Lower(full_text)
        destination == _extract_destination(full_text, set_order)
        duration == _extract_duration(user_text_lower)
        budget == _extract_budget(user_text_lower)
        interests == _extract_interests(user_text_lower)
        travel_style == _extract_travel_style(user_text_lower)
    IN IF duration.raised THEN [raised |-> TRUE, value |-> EmptyContext]
       ELSE [raised |-> FALSE,
             value |-> ContextOf(destination, duration.value, budget, interests,
                                 travel_style)]

(***************************************************************************)
(* QueryEnhancer (app/services/context/query_enhancer.py).                 *)
(***************************************************************************)
benefit_patterns ==
    {<<"what", "should">>, <<"what", "can">>, <<"where", "should">>,
     <<"where", "can">>, <<"any", "suggestions">>, <<"what", "else">>,
     <<"tell", "me", "more">>, <<"things", "to", "do">>, <<"what", "to", "see">>,
     <<"what", "to", "do">>, <<"activities">>, <<"attractions">>,
     <<"places", "to", "visit">>, <<"help", "me", "plan">>, <<"itinerary">>,
     <<"recommendations">>}

skip_patterns ==
    {<<"what", "time">>, <<"how", "much">>, <<"how", "far">>, <<"how", "long">>,
     <<"how", "to", "get">>, <<"when", "does">>, <<"where", "is">>,
     <<"is", "it", "open">>, <<"is", "there">>, <<"ticket">>, <<"price">>}

AnyPattern(patterns, query) ==
    \E pattern \in patterns : ContainsPattern(query, pattern)

benefit_before_skip(query) ==
    IF AnyPattern(benefit_patterns, query) THEN TRUE
    ELSE IF AnyPattern(skip_patterns, query) THEN FALSE
    ELSE Len(query) <= 5

_should_add_interests(query) ==
    IF AnyPattern(skip_patterns, query) THEN FALSE
    ELSE IF AnyPattern(benefit_patterns, query) THEN TRUE
    ELSE Len(query) <= 5

\* The replacements of "? in", "? focusing", ". in" and ". focusing": the mark
\* goes.  Splitting and joining on whitespace and strip() leave a
\* single-spaced text as it is.
_clean_query(query) ==
    [i \in 1..Len(query) |->
        IF /\ query[i].p \in {"?", "."}
           /\ i < Len(query)
           /\ query[i + 1].pre = ""
           /\ \/ StartsWith(query[i + 1].w, "in")
              \/ StartsWith(query[i + 1].w, "focusing")
        THEN [query[i] EXCEPT !.p = ""]
        ELSE query[i]]

\* context.get(key, default)
Get(context, key, default) ==
    IF key \in DOMAIN context THEN context[key] ELSE default

\* " and ".join(interests)
RECURSIVE JoinAnd(_)
JoinAnd(interests) ==
    IF interests = <<>> THEN <<>>
    ELSE IF Len(interests) = 1 THEN <<Tok(interests[1])>>
    ELSE <<Tok(interests[1]), Tok("and")>> \o JoinAnd(Tail(interests))

enhance_query(query, context) ==
    IF DOMAIN context = {} THEN query
    ELSE LET query_lower == Lower(query)
             destination == Get(context, "destination", NoDestination)
             interests == Get(context, "interests", <<>>)
             with_destination ==
                IF /\ destination # NoDestination
                   /\ ~ContainsPattern(query_lower,
                            [i \in 1..Len(destination) |-> destination[i].w])
                THEN query \o <<Tok("in")>> \o destination
                ELSE query
             enhanced_parts ==
                IF interests # <<>> /\ _should_add_interests(query_lower)
                THEN with_destination \o <<Tok("focusing"), Tok("on")>>
                        \o JoinAnd(SubSeq(interests, 1, Min(2, Len(interests))))
                ELSE with_destination
         IN _clean_query(enhanced_parts)

\* create_contextual_filter: the metadata filter, NoFilter for None
NoFilter == EmptyContext

create_contextual_filter(context) ==
    IF DOMAIN context = {} THEN NoFilter
    ELSE IF Get(context, "destination", NoDestination) # NoDestination
    THEN [k \in {"city"} |-> context["destination"]]
    ELSE NoFilter

(***************************************************************************)
(* ContextManager (app/services/context/manager.py).                       *)
(***************************************************************************)
\* recent_messages = messages[-self.window_size:]
get_context_for_ai(self, messages) == PySliceFrom(messages, 0 - self.window_size)

summarize_above_threshold(self, message_count, last_summarized_index) ==
    message_count - last_summarized_index > self.summarize_threshold

should_summarize(self, message_count, last_summarized_index) ==
    LET unsummarized_count == message_count - last_summarized_index
    IN unsummarized_count >= self.summarize_threshold

\* create_summary calls the language model unless the early return is taken.
create_summary_calls_llm(self, messages) == ~(Len(messages) <= self.window_size)

messages_to_summarize(self, messages) == PySliceTo(messages, 0 - self.window_size)

\* What the summarization prompt is rendered from: the messages and
\* {existing_summary or 'None'}.
summary_prompt(self, messages, existing_summary) ==
    [messages |-> messages_to_summarize(self, messages),
     previous |-> IF Truthy(existing_summary) THEN existing_summary ELSE NoSummary]

\* The value create_summary returns when its language-model call succeeds.
create_summary(self, messages, existing_summary) ==
    IF Len(messages) <= self.window_size
    THEN IF Truthy(existing_summary) THEN existing_summary ELSE EmptySummary
    ELSE SummaryText(Len(messages_to_summarize(self, messages)))

(***************************************************************************)
(* RetrievalService (app/services/rag/retrieval.py).  An index response is *)
(* a sequence of candidates [id, distance]; the parallel documents,        *)
(* metadatas and ids lists of the response are carried by the id.          *)
(***************************************************************************)
distance_taken_as_similarity(distance) == distance

_distance_to_similarity(distance) == 100 - distance

RECURSIVE FilterLoop(_, _, _, _, _)
FilterLoop(results, i, filtered, threshold, max_results) ==
    IF i > Len(results) THEN filtered
    ELSE IF _distance_to_similarity(results[i].distance) >= threshold
         THEN LET kept == Append(filtered, results[i])
              IN IF Len(kept) >= max_results THEN kept
                 ELSE FilterLoop(results, i + 1, kept, threshold, max_results)
         ELSE FilterLoop(results, i + 1, filtered, threshold, max_results)

_filter_by_similarity(results, threshold, max_results) ==
    IF results = <<>> THEN <<>>
    ELSE FilterLoop(results, 1, <<>>, threshold, max_results)

SearchOutcomes == {"ok", "embedding_failed", "index_failed"}

search_without_except(outcome, index_response, n_results, threshold) ==
    IF outcome = "ok"
    THEN [raised |-> FALSE,
          documents |-> _filter_by_similarity(index_response, threshold, n_results)]
    ELSE [raised |-> TRUE, documents |-> <<>>]

\* search: any exception of the embedding call or of the index call is caught
\* and turned into the empty result; search itself does not raise.
search(outcome, index_response, n_results, threshold) ==
    IF outcome = "ok"
    THEN [raised |-> FALSE,
          documents |-> _filter_by_similarity(index_response, threshold, n_results)]
    ELSE [raised |-> FALSE, documents |-> <<>>]

(***************************************************************************)
(* The record store.                                                       *)
(***************************************************************************)
NewConversation(req) ==
    [trip_id |-> req.trip_id, user_id |-> req.user_id, messages |-> <<>>,
     context |-> EmptyContext, summary |-> NoSummary, message_count |-> 0,
     last_summarized_index |-> 0]

\* The object a session holds for row `id`.
Loaded(id) ==
    [id |-> id,
     messages |-> conversations[id].messages,
     context |-> conversations[id].context,
     summary |-> conversations[id].summary,
     message_count |-> conversations[id].message_count,
     last_summarized_index |-> conversations[id].last_summarized_index]

\* db.query(Conversation).filter(Conversation.trip_id == trip_id): the ids of
\* the matching rows.  first() has no ORDER BY and returns any of them.
ConversationsOfTrip(trip_id) ==
    {id \in 1..Len(conversations) : conversations[id].trip_id = trip_id}

\* db.commit() of a loaded object: the UPDATE sets the columns whose value
\* differs from the value loaded, on the row with the object's id.
Commit(row, loaded, obj) ==
    [row EXCEPT
        !.messages = IF obj.messages # loaded.messages THEN obj.messages ELSE @,
        !.context = IF obj.context # loaded.context THEN obj.context ELSE @,
        !.summary = IF obj.summary # loaded.summary THEN obj.summary ELSE @,
        !.message_count =
            IF obj.message_count # loaded.message_count
            THEN obj.message_count ELSE @,
        !.last_summarized_index =
            IF obj.last_summarized_index # loaded.last_summarized_index
            THEN obj.last_summarized_index ELSE @]

(***************************************************************************)
(* What a finished request did: the retrieval outcome and result, the      *)
(* language-model calls made for the reply and for summaries, the call     *)
(* that raised, the commits done, and the reply prompt.                    *)
(***************************************************************************)
NoTurn == [search |-> "none", searches |-> 0, rag |-> <<>>, replies |-> 0,
           prompt |-> <<>>, summaries |-> 0, failed |-> "none", commits |-> 0]

NoReturn == [proc |-> 0, request |-> NoRequest, response |-> NoResponse,
             turn |-> NoTurn, loaded |-> NoConversation]

\* The index response offered to a turn: one close and one distant candidate.
IndexResponses == {<<[id |-> 1, distance |-> 20], [id |-> 2, distance |-> 90]>>}

HasFacts(messages) ==
    \E i \in 1..Len(messages) :
        messages[i].role = "user" /\ messages[i].content # PlainText

\* Texts a client may send: facts only early in a conversation.
TextsAllowed ==
    IF /\ Len(conversations) <= 1
       /\ \A id \in 1..Len(conversations) :
            Len(conversations[id].messages) < 2 * MaxFactTurns
    THEN Texts ELSE {PlainText}

\* Number of turns for which a row is followed.
Depth(id) ==
    IF Len(conversations) > 1 THEN MaxDupTurns
    ELSE IF \/ HasFacts(conversations[id].messages)
            \/ DOMAIN conversations[id].context # {}
         THEN MaxFactDepth
    ELSE MaxTurns

(***************************************************************************)
(* ConversationService.process_message, steps 1 and 2.                     *)
(***************************************************************************)
AllMessages(p) == Append(conversation[p].messages, UserMsg(request[p].message))

\* The iteration order of KNOWN_CITIES in each worker process.
worker_set_order ==
    [p \in Procs |-> IF p = 1 THEN <<"paris", "tokyo", "rome">>
                     ELSE <<"tokyo", "rome", "paris">>]

old_values_win(conversation_context, extracted) ==
    MergeDicts(extracted, conversation_context)

\* if conversation_context: extracted = {**conversation_context,
\*                                             **extracted}
merge_context(conversation_context, extracted) ==
    IF DOMAIN conversation_context # {}
    THEN MergeDicts(conversation_context, extracted)
    ELSE extracted

\* process_message, step 1 (lines 30-39): [raised, value], value being the
\* merged facts.  The step reads the loaded object and the request only; it
\* is taken together with the database statement that precedes it.
process_message_step1(conversation_history, conversation_context, user_message, set_order) ==
    LET all_messages == Append(conversation_history, UserMsg(user_message))
        extracted == extract_context(all_messages, set_order)
    IN IF extracted.raised THEN [raised |-> TRUE, value |-> EmptyContext]
       ELSE [raised |-> FALSE,
             value |-> merge_context(conversation_context, extracted.value)]

NotExtracted == [raised |-> FALSE, value |-> EmptyContext]

Extracted(p) == updated_context[p]

UpdatedContext(p) == updated_context[p].value

NoInput == [fn |-> "none", outcome |-> "ok", results |-> <<>>, threshold |-> 0,
            n_results |-> 0, messages |-> <<>>, window_size |-> 0,
            message_count |-> 0, last_summarized_index |-> 0,
            conversation_context |-> EmptyContext, user_message |-> <<>>,
            set_order |-> <<>>, query |-> <<>>, context |-> EmptyContext,
            existing_summary |-> NoSummary]
NotCalled == [called |-> FALSE, raised |-> FALSE, value |-> <<>>]

Init ==
    /\ conversations = <<>>
    /\ pc = [p \in Procs |-> "idle"]
    /\ request = [p \in Procs |-> NoRequest]
    /\ conversation = [p \in Procs |-> NoConversation]
    /\ created = [p \in Procs |-> FALSE]
    /\ updated_context = [p \in Procs |-> NotExtracted]
    /\ returned = NoReturn
    /\ fn_in = NoInput
    /\ fn_out = NotCalled

\* The handler returns (or raises): its session and locals are gone.
Finish(p, req, status, message, conversation_id, final_turn) ==
    /\ pc' = [pc EXCEPT ![p] = "idle"]
    /\ returned' = [proc |-> p, request |-> req,
                    response |-> [status |-> status, message |-> message,
                                  conversation_id |-> conversation_id],
                    turn |-> final_turn, loaded |-> conversation[p]]
    /\ request' = [request EXCEPT ![p] = NoRequest]
    /\ conversation' = [conversation EXCEPT ![p] = NoConversation]
    /\ created' = [created EXCEPT ![p] = FALSE]
    /\ updated_context' = [updated_context EXCEPT ![p] = NotExtracted]

(***************************************************************************)
(* send_message, lines 17-28: trip lookup, ownership check, conversation   *)
(* lookup.                                                                 *)
(***************************************************************************)
CanReceive(p) ==
    /\ pc[p] = "idle"
    /\ \A id \in 1..Len(conversations) :
            Len(conversations[id].messages) < 2 * Depth(id)

ownership_not_checked(trip, user_id) == FALSE

\* if trip.user_id != request.user_id: raise HTTPException(403)
NotAuthorized(trip, user_id) == trip.user_id # user_id

ReceiveNotFound(p) ==
    /\ CanReceive(p)
    /\ \E text \in TextsAllowed, trip_id \in TripIds, user_id \in UserIds :
        /\ ~(\E t \in Trips : t.id = trip_id)
        /\ Finish(p, [message |-> text, trip_id |-> trip_id, user_id |-> user_id],
                  404, "Trip not found", 0, NoTurn)
    /\ UNCHANGED <<conversations, fn_in, fn_out>>

ReceiveNotAuthorized(p) ==
    /\ CanReceive(p)
    /\ \E text \in TextsAllowed, trip_id \in TripIds, user_id \in UserIds :
        /\ \E t \in Trips : t.id = trip_id /\ NotAuthorized(t, user_id)
        /\ Finish(p, [message |-> text, trip_id |-> trip_id, user_id |-> user_id],
                  403, "Not authorized", 0, NoTurn)
    /\ UNCHANGED <<conversations, fn_in, fn_out>>

Receive(p) ==
    /\ CanReceive(p)
    /\ \E text \in TextsAllowed, trip_id \in TripIds, user_id \in UserIds :
        /\ \E t \in Trips : t.id = trip_id /\ ~NotAuthorized(t, user_id)
        /\ request' = [request EXCEPT ![p] =
                [message |-> text, trip_id |-> trip_id, user_id |-> user_id]]
        /\ IF ConversationsOfTrip(trip_id) = {}
           THEN /\ pc' = [pc EXCEPT ![p] = "create"]
                /\ conversation' = [conversation EXCEPT ![p] = NoConversation]
                /\ UNCHANGED updated_context
           ELSE /\ pc' = [pc EXCEPT ![p] = "process"]
                /\ \E id \in ConversationsOfTrip(trip_id) :
                     /\ conversation' = [conversation EXCEPT ![p] = Loaded(id)]
                     /\ updated_context' = [updated_context EXCEPT ![p] =
                            process_message_step1(
                                Loaded(id).messages, Loaded(id).context, text,
                                worker_set_order[p])]
    /\ returned' = NoReturn
    /\ UNCHANGED <<conversations, created, fn_in, fn_out>>

(***************************************************************************)
(* send_message, lines 30-42: no conversation was found; add, commit,      *)
(* refresh.                                                                *)
(***************************************************************************)
Create(p) ==
    /\ pc[p] = "create"
    /\ conversations' = Append(conversations, NewConversation(request[p]))
    /\ conversation' = [conversation EXCEPT ![p] =
            [id |-> Len(conversations) + 1, messages |-> <<>>,
             context |-> EmptyContext, summary |-> NoSummary,
             message_count |-> 0, last_summarized_index |-> 0]]
    /\ created' = [created EXCEPT ![p] = TRUE]
    /\ updated_context' = [updated_context EXCEPT ![p] =
            process_message_step1(<<>>, EmptyContext, request[p].message,
                                  worker_set_order[p])]
    /\ pc' = [pc EXCEPT ![p] = "process"]
    /\ returned' = NoReturn
    /\ UNCHANGED <<request, fn_in, fn_out>>

(***************************************************************************)
(* ConversationService.process_message (awaited at send_message line 58).  *)
(* Steps 1-5 are local; the retrieval call degrades to the empty result;   *)
(* the reply call (step 6) and the summary call (step 7) raise on failure  *)
(* and nothing in process_message or send_message catches it.              *)
(***************************************************************************)
SearchInputs ==
    {<<"ok", r>> : r \in IndexResponses}
        \cup {<<o, <<>>>> : o \in SearchOutcomes \ {"ok"}}

RagResults(outcome, index_response) ==
    search(outcome, index_response, RagTopK, RagSimilarityThreshold)

\* The turn record after the retrieval call of process_message.
Searched(p, outcome, index_response) ==
    [NoTurn EXCEPT
        !.commits = IF created[p] THEN 1 ELSE 0,
        !.search = outcome,
        !.searches = 1,
        !.rag = RagResults(outcome, index_response).documents]

\* Step 5: the message list of the reply call.  The system prompt is carried
\* as one opaque message.
SystemMsg == [role |-> "system", content |-> "system_prompt"]

window_over_all_messages(self, conversation_history, user_message) ==
    <<SystemMsg>>
        \o get_context_for_ai(self, Append(conversation_history, UserMsg(user_message)))
        \o <<UserMsg(user_message)>>

reply_messages(self, conversation_history, user_message) ==
    <<SystemMsg>> \o get_context_for_ai(self, conversation_history)
        \o <<UserMsg(user_message)>>

\* The turn record once the reply call (step 6) is made.
Replied(p, outcome, index_response) ==
    [Searched(p, outcome, index_response) EXCEPT
        !.replies = 1,
        !.prompt = reply_messages(context_manager, conversation[p].messages,
                                  request[p].message)]

\* Step 7 asks should_summarize(len(conversation_history) + 1, 0) and then
\* create_summary(all_messages, conversation_summary).
Step7Summarizes(p) ==
    /\ should_summarize(context_manager, Len(conversation[p].messages) + 1, 0)
    /\ create_summary_calls_llm(context_manager, AllMessages(p))

\* The turn record when process_message returns.
Processed(p, outcome, index_response) ==
    [Replied(p, outcome, index_response) EXCEPT
        !.summaries = IF Step7Summarizes(p) THEN 1 ELSE 0]

(***************************************************************************)
(* send_message, lines 66-103: append the two messages, store the facts,   *)
(* decide on summarization with the loaded last_summarized_index, commit.  *)
(***************************************************************************)
NewMessages(p, reply) ==
    conversation[p].messages
        \o <<UserMsg(request[p].message), AssistantMsg(reply)>>

PersistSummarizes(p) ==
    should_summarize(context_manager, Len(conversation[p].messages) + 2,
                     conversation[p].last_summarized_index)

PersistCallsLlm(p) ==
    /\ PersistSummarizes(p)
    /\ create_summary_calls_llm(context_manager, NewMessages(p, Reply))

message_count_before_reply(messages) == Len(messages) - 1

\* conversation.message_count = len(conversation.messages)
persisted_message_count(messages) == Len(messages)

\* The in-memory object right before db.commit().
Updated(p, reply) ==
    LET messages == NewMessages(p, reply)
        message_count == persisted_message_count(messages)
    IN [id |-> conversation[p].id,
        messages |-> messages,
        context |-> UpdatedContext(p),
        message_count |-> message_count,
        summary |->
            IF PersistSummarizes(p)
            THEN create_summary(context_manager, messages, conversation[p].summary)
            ELSE conversation[p].summary,
        last_summarized_index |->
            IF PersistSummarizes(p) THEN message_count
            ELSE conversation[p].last_summarized_index]

(***************************************************************************)
(* The rest of a request, from process_message to the return: one of the   *)
(* language-model calls raises, or the turn is committed.                  *)
(***************************************************************************)
\* process_message raises in step 1, out of extract_context.
ExtractFails(p) ==
    /\ pc[p] = "process"
    /\ Extracted(p).raised
    /\ Finish(p, request[p], 500, "", 0,
              [NoTurn EXCEPT !.commits = IF created[p] THEN 1 ELSE 0,
                             !.failed = "extract"])
    /\ UNCHANGED <<conversations, fn_in, fn_out>>

\* process_message raises before it has a reply: out of the retrieval call, if
\* search lets an exception through, else out of the reply call.
ReplyFails(p) ==
    /\ pc[p] = "process"
    /\ ~Extracted(p).raised
    /\ \E in \in SearchInputs :
        LET raised == RagResults(in[1], in[2]).raised
        IN Finish(p, request[p], 500, "", 0,
                     IF raised
                     THEN [Searched(p, in[1], in[2]) EXCEPT !.failed = "search"]
                     ELSE [Replied(p, in[1], in[2]) EXCEPT !.failed = "reply"])
    /\ UNCHANGED <<conversations, fn_in, fn_out>>

ProcessSummaryFails(p) ==
    /\ pc[p] = "process"
    /\ ~Extracted(p).raised
    /\ Step7Summarizes(p)
    /\ \E in \in SearchInputs :
        /\ ~RagResults(in[1], in[2]).raised
        /\ Finish(p, request[p], 500, "", 0,
                  [Processed(p, in[1], in[2]) EXCEPT !.failed = "summary"])
    /\ UNCHANGED <<conversations, fn_in, fn_out>>

PersistSummaryFails(p) ==
    /\ pc[p] = "process"
    /\ ~Extracted(p).raised
    /\ PersistCallsLlm(p)
    /\ \E in \in SearchInputs :
        /\ ~RagResults(in[1], in[2]).raised
        /\ Finish(p, request[p], 500, "", 0,
                  [Processed(p, in[1], in[2]) EXCEPT
                        !.summaries = @ + 1, !.failed = "summary"])
    /\ UNCHANGED <<conversations, fn_in, fn_out>>

Persist(p) ==
    /\ pc[p] = "process"
    /\ ~Extracted(p).raised
    /\ \E in \in SearchInputs :
        /\ ~RagResults(in[1], in[2]).raised
        /\ Finish(p, request[p], 200, Reply, conversation[p].id,
                  [Processed(p, in[1], in[2]) EXCEPT
                        !.summaries = IF PersistCallsLlm(p) THEN @ + 1 ELSE @,
                        !.commits = @ + 1])
    /\ LET id == conversation[p].id
       IN conversations' = [conversations EXCEPT
            ![id] = Commit(@, conversation[p], Updated(p, Reply))]
    /\ UNCHANGED <<fn_in, fn_out>>

Turn(p) ==
    \/ ReceiveNotFound(p)
    \/ ReceiveNotAuthorized(p)
    \/ Receive(p)
    \/ Create(p)
    \/ ExtractFails(p)
    \/ ReplyFails(p)
    \/ ProcessSummaryFails(p)
    \/ PersistSummaryFails(p)
    \/ Persist(p)

Next == \E p \in Procs : Turn(p)

Spec == Init /\ [][Next]_vars

(***************************************************************************)
(* Calls of the pure functions on inputs drawn from bounded sets.          *)
(***************************************************************************)
\* Index responses of n candidates; the id of a candidate is its rank.
Responses(n) ==
    {[i \in 1..n |-> [id |-> i, distance |-> d[i]]] : d \in [1..n -> {20, 40, 60, 90}]}

SearchCalls ==
    {[NoInput EXCEPT !.fn = "search", !.outcome = o, !.results = r,
                     !.threshold = t, !.n_results = k] :
        o \in SearchOutcomes, r \in UNION {Responses(n) : n \in 0..MaxCands},
        t \in {40, 60}, k \in 0..MaxK}

\* A history of n messages, each different: message i has i words.
History(n) == [i \in 1..n |-> UserMsg([k \in 1..i |-> Tok("hello")])]

WindowCalls ==
    {[NoInput EXCEPT !.fn = "get_context_for_ai", !.messages = History(n),
                     !.window_size = w] :
        n \in 0..MaxLen, w \in 0..MaxW}

CreateSummaryCalls ==
    {[NoInput EXCEPT !.fn = "create_summary", !.messages = History(n),
                     !.window_size = w, !.existing_summary = e] :
        n \in 0..MaxLen, w \in 0..MaxW,
        e \in {NoSummary, EmptySummary, SummaryText(2)}}

SummarizeCalls ==
    {[NoInput EXCEPT !.fn = "should_summarize", !.message_count = m,
                     !.last_summarized_index = l] :
        m \in 0..MaxCount, l \in 0..MaxCount}

HarnessTexts == {Hello, VisitParis, <<Tok("visit"), Cap("tokyo")>>, BudgetText, AWeekTrip,
                 ForFiveDays, TwoWeeks, INeedFive, <<Cap("paris"), Cap("tokyo")>>, Scenario}

\* The history in which the user sent `texts` and each but the last was
\* answered.
Dialogue(texts) ==
    [i \in 1..(2 * Len(texts) - 1) |->
        IF i % 2 = 1 THEN UserMsg(texts[(i + 1) \div 2]) ELSE AssistantMsg(Reply)]

Dialogues(lo, hi) ==
    {Dialogue(texts) : texts \in UNION {[1..n -> HarnessTexts] : n \in lo..hi}}

ExtractCalls ==
    {[NoInput EXCEPT !.fn = "extract_context", !.messages = d, !.set_order = o] :
        d \in Dialogues(1, MaxTexts), o \in SetOrders}

DurationCalls ==
    {[NoInput EXCEPT !.fn = "_extract_duration", !.messages = d] :
        d \in Dialogues(1, MaxTexts)}

\* Facts persisted by earlier turns.
StoredContexts ==
    {EmptyContext,
     ContextOf(<<Cap("tokyo")>>, None, None, <<>>, "None"),
     ContextOf(NoDestination, None, 500, <<>>, "None"),
     ContextOf(<<Cap("tokyo")>>, 3, 500, <<"nature">>, "luxury")}

\* A stored history: every user message answered.
Answered(texts) ==
    [i \in 1..(2 * Len(texts)) |->
        IF i % 2 = 1 THEN UserMsg(texts[(i + 1) \div 2]) ELSE AssistantMsg(Reply)]

Step1Calls ==
    {[NoInput EXCEPT !.fn = "process_message_step1", !.messages = Answered(h),
                     !.conversation_context = c, !.user_message = t,
                     !.set_order = worker_set_order[1]] :
        h \in UNION {[1..n -> HarnessTexts \ {AWeekTrip}] : n \in 0..(MaxTexts - 1)},
        c \in StoredContexts, t \in HarnessTexts}

WhatToSeeHowMuch ==
    <<Cap("what"), Tok("to"), Then(Tok("see"), ","), Tok("how"),
      Then(Tok("much"), "?")>>
BestRestaurants == <<Cap("best"), Then(Tok("restaurants"), "?")>>

\* "hello", "What should I see?", "How much is the ticket?", "What to see,
\* how much?", "Tell me the best food near the river", "What should I see
\* near the river?", "Open? in Paris", "Best restaurants?"
Queries ==
    {Hello,
     <<Cap("what"), Tok("should"), Cap("i"), Then(Tok("see"), "?")>>,
     <<Cap("how"), Tok("much"), Tok("is"), Tok("the"), Then(Tok("ticket"), "?")>>,
     WhatToSeeHowMuch,
     <<Cap("tell"), Tok("me"), Tok("the"), Tok("best"), Tok("food"), Tok("near"),
       Tok("the"), Tok("river")>>,
     <<Cap("what"), Tok("should"), Cap("i"), Tok("see"), Tok("near"), Tok("the"),
       Then(Tok("river"), "?")>>,
     <<Then(Cap("open"), "?"), Tok("in"), Cap("paris")>>,
     BestRestaurants}

EnhanceContexts ==
    {ContextOf(d, n, b, i, ts) :
        d \in {NoDestination, <<Cap("paris")>>, <<Cap("tokyo")>>},
        n \in {None, 5}, b \in {None, 2000},
        i \in {<<>>, <<"museums">>, <<"food", "culture">>,
               <<"food", "culture", "history">>},
        ts \in {"None", "budget"}}

EnhanceCalls ==
    {[NoInput EXCEPT !.fn = "enhance_query", !.query = q, !.context = c] :
        q \in Queries, c \in EnhanceContexts}

InitFn ==
    /\ conversations = <<>>
    /\ pc = [p \in Procs |-> "idle"]
    /\ request = [p \in Procs |-> NoRequest]
    /\ conversation = [p \in Procs |-> NoConversation]
    /\ created = [p \in Procs |-> FALSE]
    /\ updated_context = [p \in Procs |-> NotExtracted]
    /\ returned = NoReturn
    /\ fn_in \in SearchCalls \cup WindowCalls \cup SummarizeCalls
                \cup ExtractCalls \cup DurationCalls \cup Step1Calls
                \cup EnhanceCalls \cup CreateSummaryCalls
    /\ fn_out = NotCalled

CallSearch ==
    /\ fn_in.fn = "search"
    /\ ~fn_out.called
    /\ LET r == search(fn_in.outcome, fn_in.results, fn_in.n_results,
                       fn_in.threshold)
       IN fn_out' = [called |-> TRUE, raised |-> r.raised, value |-> r.documents]
    /\ UNCHANGED <<conversations, pc, request, conversation, created,
                   updated_context, returned, fn_in>>

CallWindow ==
    /\ fn_in.fn = "get_context_for_ai"
    /\ ~fn_out.called
    /\ fn_out' = [called |-> TRUE, raised |-> FALSE,
                  value |-> get_context_for_ai(
                        [context_manager EXCEPT !.window_size = fn_in.window_size],
                        fn_in.messages)]
    /\ UNCHANGED <<conversations, pc, request, conversation, created,
                   updated_context, returned, fn_in>>

CallShouldSummarize ==
    /\ fn_in.fn = "should_summarize"
    /\ ~fn_out.called
    /\ fn_out' = [called |-> TRUE, raised |-> FALSE,
                  value |-> should_summarize(context_manager, fn_in.message_count,
                                             fn_in.last_summarized_index)]
    /\ UNCHANGED <<conversations, pc, request, conversation, created,
                   updated_context, returned, fn_in>>

CallExtract ==
    /\ fn_in.fn = "extract_context"
    /\ ~fn_out.called
    /\ LET r == extract_context(fn_in.messages, fn_in.set_order)
       IN fn_out' = [called |-> TRUE, raised |-> r.raised, value |-> r.value]
    /\ UNCHANGED <<conversations, pc, request, conversation, created,
                   updated_context, returned, fn_in>>

CallDuration ==
    /\ fn_in.fn = "_extract_duration"
    /\ ~fn_out.called
    /\ LET r == _extract_duration(Lower(JoinUser(fn_in.messages)))
       IN fn_out' = [called |-> TRUE, raised |-> r.raised, value |-> r.value]
    /\ UNCHANGED <<conversations, pc, request, conversation, created,
                   updated_context, returned, fn_in>>

CallStep1 ==
    /\ fn_in.fn = "process_message_step1"
    /\ ~fn_out.called
    /\ LET r == process_message_step1(fn_in.messages, fn_in.conversation_context,
                                      fn_in.user_message, fn_in.set_order)
       IN fn_out' = [called |-> TRUE, raised |-> r.raised, value |-> r.value]
    /\ UNCHANGED <<conversations, pc, request, conversation, created,
                   updated_context, returned, fn_in>>

CallEnhance ==
    /\ fn_in.fn = "enhance_query"
    /\ ~fn_out.called
    /\ fn_out' = [called |-> TRUE, raised |-> FALSE,
                  value |-> enhance_query(fn_in.query, fn_in.context)]
    /\ UNCHANGED <<conversations, pc, request, conversation, created,
                   updated_context, returned, fn_in>>

CallCreateSummary ==
    /\ fn_in.fn = "create_summary"
    /\ ~fn_out.called
    /\ LET self == [context_manager EXCEPT !.window_size = fn_in.window_size]
           calls_llm == create_summary_calls_llm(self, fn_in.messages)
       IN fn_out' = [called |-> TRUE, raised |-> FALSE,
                     value |-> [summary |-> create_summary(self, fn_in.messages,
                                                           fn_in.existing_summary),
                                calls_llm |-> calls_llm,
                                prompt |-> IF calls_llm
                                           THEN summary_prompt(self, fn_in.messages,
                                                               fn_in.existing_summary)
                                           ELSE [messages |-> <<>>,
                                                 previous |-> NoSummary]]]
    /\ UNCHANGED <<conversations, pc, request, conversation, created,
                   updated_context, returned, fn_in>>

NextFn ==
    \/ CallSearch
    \/ CallWindow
    \/ CallShouldSummarize
    \/ CallExtract
    \/ CallDuration
    \/ CallStep1
    \/ CallEnhance
    \/ CallCreateSummary

SpecFn == InitFn /\ [][NextFn]_vars

\* Turns taken one at a time: a request is received only when no other
\* handler is in flight.
NextSerial == \E p \in Procs : Turn(p) /\ \A q \in Procs \ {p} : pc[q] = "idle"

SpecSerial == Init /\ [][NextSerial]_vars

(***************************************************************************)
(* Properties.                                                             *)
(***************************************************************************)
Rows == 1..Len(conversations)

\* The step committed a turn on row id.
Committed(id) ==
    /\ returned'.response.status = 200
    /\ returned'.response.conversation_id = id
    /\ pc[returned'.proc] = "process"
    /\ pc'[returned'.proc] = "idle"

\* C1: every successful turn extends the persisted message sequence of its
\* conversation by exactly two messages, the user message followed by the
\* assistant reply, and leaves the messages stored before in place.
C1_TurnAppendsTwoMessages ==
    [][\A id \in Rows :
        Committed(id) =>
            conversations'[id].messages =
                conversations[id].messages
                    \o <<UserMsg(returned'.request.message),
                         AssistantMsg(returned'.response.message)>>]_vars

\* C2: the persisted last_summarized_index never decreases; it changes only
\* in a turn whose summarize call returned, and then to that turn's
\* message_count.
C2_SummarizedIndexMonotonic ==
    [][\A id \in Rows :
        LET old == conversations[id].last_summarized_index
            new == conversations'[id].last_summarized_index
        IN /\ new >= old
           /\ new # old =>
                /\ Committed(id)
                /\ returned'.turn.summaries >= 1
                /\ returned'.turn.failed = "none"
                /\ new = Len(returned'.loaded.messages) + 2]_vars

\* C3: in every persisted state, 0 <= last_summarized_index <= message_count.
C3_SummarizedIndexInRange ==
    \A id \in Rows :
        /\ 0 <= conversations[id].last_summarized_index
        /\ conversations[id].last_summarized_index
                <= conversations[id].message_count

\* C4: turns on one conversation are serialized: a turn that commits after
\* another turn has changed the row since it was loaded loses nothing of that
\* other turn; the messages, the facts and the summary stored are kept.
C4_ConcurrentTurnsLoseNothing ==
    [][\A id \in Rows :
        (Committed(id) /\ Loaded(id) # returned'.loaded) =>
            /\ conversations'[id].message_count
                    = conversations[id].message_count + 2
            /\ SubSeq(conversations'[id].messages, 1,
                      Len(conversations[id].messages))
                    = conversations[id].messages
            /\ DOMAIN conversations[id].context
                    \subseteq DOMAIN conversations'[id].context
            /\ conversations'[id].summary.upto
                    >= conversations[id].summary.upto]_vars

\* C5: a turn whose reply call fails returns no reply and has written
\* nothing to the record store, not even a new record.
C5_FailedTurnWritesNothing ==
    returned.turn.failed = "reply" =>
        /\ returned.response.status # 200
        /\ returned.response.message = ""
        /\ returned.turn.commits = 0

\* C6: a failure of the summarization call does not abort the turn: the
\* reply is returned and the two messages are persisted.
C6_SummaryFailureKeepsTurn ==
    (returned.turn.failed = "summary" /\ returned.turn.replies = 1) =>
        /\ returned.response.status = 200
        /\ returned.response.message = Reply
        /\ returned.turn.commits >= 1

\* C7: when the embedding call or the index call fails, search returns the
\* empty result instead of raising, the reply call is still made, and unless
\* a language-model call fails the turn returns the reply.
C7_RetrievalFailureDegrades ==
    returned.turn.search \in {"embedding_failed", "index_failed"} =>
        /\ returned.turn.rag = <<>>
        /\ returned.turn.failed # "search"
        /\ returned.turn.replies = 1
        /\ returned.turn.failed = "none" =>
                /\ returned.response.status = 200
                /\ returned.response.message = Reply

C7_Witness ==
    /\ returned.turn.search = "embedding_failed"
    /\ returned.response.status = 200
    /\ returned.response.message = Reply
    /\ returned.turn.rag = <<>>

Qualifies(c) == 100 - c.distance >= fn_in.threshold

FirstK(s, k) == SubSeq(s, 1, Min(k, Len(s)))

SearchReturned ==
    fn_out.called /\ fn_in.fn = "search" /\ fn_in.outcome = "ok"

\* C8: for k >= 1, search returns exactly the first k candidates, in index
\* order, whose similarity 1 - distance is at least the threshold.
C8_SearchKeepsFirstKQualifying ==
    (SearchReturned /\ fn_in.n_results >= 1) =>
        /\ ~fn_out.raised
        /\ fn_out.value = FirstK(SelectSeq(fn_in.results, Qualifies), fn_in.n_results)

C8_Witness ==
    /\ SearchReturned
    /\ fn_in.n_results = 2
    /\ Len(fn_in.results) = 3
    /\ ~Qualifies(fn_in.results[1])
    /\ Qualifies(fn_in.results[2])
    /\ 100 - fn_in.results[3].distance = fn_in.threshold
    /\ fn_out.value = <<fn_in.results[2], fn_in.results[3]>>

\* C9: for every k >= 0, the sequence search returns has at most k elements.
C9_SearchReturnsAtMostK ==
    (fn_out.called /\ fn_in.fn = "search" /\ fn_in.n_results >= 0) =>
        Len(fn_out.value) <= fn_in.n_results

\* C10: for every history length L and window_size W >= 0, the window is the
\* last min(L, W) messages of the history, in order.
C10_WindowIsLastMinLW ==
    (fn_out.called /\ fn_in.fn = "get_context_for_ai" /\ fn_in.window_size >= 0) =>
        LET L == Len(fn_in.messages)
            n == Min(L, fn_in.window_size)
        IN fn_out.value = [i \in 1..n |-> fn_in.messages[L - n + i]]

Called(fn) == fn_out.called /\ fn_in.fn = fn

C12_SummarizedIndexCountsFolded ==
    \A id \in Rows :
        conversations[id].last_summarized_index <= conversations[id].summary.upto

\* C13: after every successful turn the persisted message_count equals the
\* length of the persisted message sequence (4 after two turns).
C13_MessageCountIsLength ==
    \A id \in Rows :
        conversations[id].message_count = Len(conversations[id].messages)

C13_Witness ==
    /\ returned.response.status = 200
    /\ returned.response.conversation_id \in Rows
    /\ conversations[returned.response.conversation_id].message_count = 4
    /\ Len(conversations[returned.response.conversation_id].messages) = 4

\* C14: the fact merge of a turn is last-extraction-wins: for every key the
\* merged facts hold the freshly extracted value if the extraction produced
\* the key and otherwise the value persisted before; the merged key set is
\* the union of both key sets.
C14_MergeLastExtractionWins ==
    (Called("process_message_step1") /\ ~fn_out.raised) =>
        LET old == fn_in.conversation_context
            new == extract_context(
                        Append(fn_in.messages, UserMsg(fn_in.user_message)),
                        fn_in.set_order).value
        IN /\ DOMAIN fn_out.value = DOMAIN old \cup DOMAIN new
           /\ \A k \in DOMAIN fn_out.value :
                fn_out.value[k] = IF k \in DOMAIN new THEN new[k] ELSE old[k]

C14_Witness ==
    /\ Called("process_message_step1")
    /\ fn_in.messages = <<>>
    /\ fn_in.user_message = VisitParis
    /\ DOMAIN fn_in.conversation_context
            = {"destination", "duration_days", "budget", "interests",
               "travel_style"}
    /\ fn_in.conversation_context["destination"] = <<Cap("tokyo")>>
    /\ fn_out.value["destination"] = <<Cap("paris")>>
    /\ fn_out.value["budget"] = 500

\* C15: extract is deterministic: any two evaluations of extract_context on
\* the same history, in the same or in different processes, return the same
\* facts.
C15_ExtractIsDeterministic ==
    Called("extract_context") =>
        \A o \in SetOrders :
            LET again == extract_context(fn_in.messages, o)
            IN /\ again.raised = fn_out.raised
               /\ again.value = fn_out.value

\* C16: extract_context is total on text input: it returns a facts mapping
\* without raising, and a sub-extractor that finds no match leaves its key
\* out.
C16_ExtractIsTotal ==
    Called("extract_context") =>
        /\ ~fn_out.raised
        /\ JoinUser(fn_in.messages) = Hello => DOMAIN fn_out.value = {}

\* C17: duration extraction returns 5 for "for 5 days", 7 for "a week trip",
\* 14 for "2 weeks" and no duration for "I need 5"; the first matching
\* pattern of the pattern order decides.
C17_DurationExamples ==
    Called("_extract_duration") =>
        LET text == JoinUser(fn_in.messages)
        IN /\ text = ForFiveDays => (~fn_out.raised /\ fn_out.value = 5)
           /\ text = AWeekTrip => (~fn_out.raised /\ fn_out.value = 7)
           /\ text = TwoWeeks => (~fn_out.raised /\ fn_out.value = 14)
           /\ text = INeedFive => (~fn_out.raised /\ fn_out.value = None)
           /\ text = TwoWeeks \o ForFiveDays
                    => (~fn_out.raised /\ fn_out.value = 5)

\* C18: on an empty conversation, after the user turn "I want to visit Paris
\* for 5 days with a $2000 budget, I love museums and food" the merged facts
\* contain destination = "Paris", duration_days = 5, budget = 2000 and
\* interests including museums and food.
C18_ScenarioFacts ==
    (/\ Called("process_message_step1")
     /\ fn_in.messages = <<>>
     /\ DOMAIN fn_in.conversation_context = {}
     /\ fn_in.user_message = Scenario) =>
        /\ ~fn_out.raised
        /\ {"destination", "duration_days", "budget", "interests"}
                \subseteq DOMAIN fn_out.value
        /\ fn_out.value["destination"] = <<Cap("paris")>>
        /\ fn_out.value["duration_days"] = 5
        /\ fn_out.value["budget"] = 2000
        /\ \E i \in DOMAIN fn_out.value["interests"] :
                fn_out.value["interests"][i] = "museums"
        /\ \E i \in DOMAIN fn_out.value["interests"] :
                fn_out.value["interests"][i] = "food"

InterestsAppended == \E i \in 1..Len(fn_out.value) : fn_out.value[i].w = "focusing"

InterestsKnown == Get(fn_in.context, "interests", <<>>) # <<>>

SameForRetrieval(a, b) ==
    \A k \in {"destination", "interests"} :
        /\ k \in DOMAIN a <=> k \in DOMAIN b
        /\ k \in DOMAIN a => a[k] = b[k]

\* C20: duration, budget and travel style do not influence retrieval: two
\* facts mappings that differ only in duration_days, budget or travel_style
\* (one of them may have none of these keys) yield the identical enhanced
\* query and the identical metadata filter.
C20_RetrievalIgnoresOtherFacts ==
    Called("enhance_query") =>
        \A other \in EnhanceContexts :
            SameForRetrieval(fn_in.context, other) =>
                /\ enhance_query(fn_in.query, other) = fn_out.value
                /\ create_contextual_filter(other)
                        = create_contextual_filter(fn_in.context)

\* C21: the documented example of enhance_query: for the query "Best
\* restaurants?" with facts {destination: "Tokyo", interests: ["food",
\* "culture"]} the enhanced query is "Best restaurants in Tokyo": the
\* destination is appended and no interest clause is added.
C21_DocumentedExample ==
    (/\ Called("enhance_query")
     /\ fn_in.query = BestRestaurants
     /\ fn_in.context = ContextOf(<<Cap("tokyo")>>, None, None,
                                  <<"food", "culture">>, "None")) =>
        /\ fn_out.value = <<Cap("best"), Tok("restaurants"), Tok("in"), Cap("tokyo")>>
        /\ ~InterestsAppended

\* C22: a trip has at most one conversation: after any sequence of
\* send_message calls for the same trip, two concurrent first turns included,
\* one Conversation record exists for the trip and every call that returned
\* a conversation_id returned that record's id.
C22_OneConversationPerTrip ==
    \A trip_id \in TripIds :
        /\ Cardinality(ConversationsOfTrip(trip_id)) <= 1
        /\ (returned.response.status = 200 /\ returned.request.trip_id = trip_id)
                => ConversationsOfTrip(trip_id) = {returned.response.conversation_id}

Rejected(req) ==
    \/ ~(\E t \in Trips : t.id = req.trip_id)
    \/ \E t \in Trips : t.id = req.trip_id /\ t.user_id # req.user_id

\* C23: a request for a trip that does not exist is rejected with 404 and a
\* request whose user_id differs from the trip's owner with 403; in both
\* cases no conversation is created or modified and neither the retrieval
\* service nor the language model is called.
C23_RejectedRequestsTouchNothing ==
    [][(returned'.proc # 0 /\ Rejected(returned'.request)) =>
            /\ returned'.response.status
                    = IF \E t \in Trips : t.id = returned'.request.trip_id
                      THEN 403 ELSE 404
            /\ returned'.response.conversation_id = 0
            /\ conversations' = conversations
            /\ returned'.turn.commits = 0
            /\ returned'.turn.search = "none"
            /\ returned'.turn.replies = 0
            /\ returned'.turn.summaries = 0]_vars

C23_Witness ==
    /\ returned.proc # 0
    /\ returned.request.trip_id = 1
    /\ returned.request.user_id = 2
    /\ returned.response.status = 403
    /\ Len(conversations) = 1
    /\ Len(conversations[1].messages) = 2

\* The row a successful turn has just committed.
ReturnedRow == conversations[returned.response.conversation_id]

TurnCommitted ==
    /\ returned.response.status = 200
    /\ returned.response.conversation_id \in Rows

\* C24: the post-turn summarization decision of a turn is made with
\* message_count = previous_count + 1, the new user message counted and the
\* assistant reply not; when it fires, the messages summarized and the value
\* written to last_summarized_index are based on that same count.
C24_DecisionCountsUserMessageOnly ==
    TurnCommitted =>
        LET message_count == Len(returned.loaded.messages) + 1
            fires == should_summarize(context_manager, message_count,
                                      returned.loaded.last_summarized_index)
        IN IF fires
           THEN /\ ReturnedRow.last_summarized_index = message_count
                /\ ReturnedRow.summary.upto = Max(message_count - WindowSize, 0)
           ELSE /\ ReturnedRow.last_summarized_index
                        = returned.loaded.last_summarized_index
                /\ ReturnedRow.summary = returned.loaded.summary

\* C25: summarization is computed only when needed: within one turn the
\* language model is called for summarization at most once, and only if
\* message_count - last_summarized_index >= summarize_threshold holds for the
\* persisted last_summarized_index; a summary that is computed is persisted.
C25_SummaryComputedOnlyWhenNeeded ==
    (returned.proc # 0 /\ returned.turn.summaries >= 1) =>
        /\ returned.turn.summaries = 1
        /\ should_summarize(context_manager, Len(returned.loaded.messages) + 2,
                            returned.loaded.last_summarized_index)
        /\ TurnCommitted =>
                /\ ReturnedRow.last_summarized_index = ReturnedRow.message_count
                /\ ReturnedRow.summary # returned.loaded.summary

\* C26: for every history of length L, the message list handed to the
\* language model for the reply is one system message, then the
\* min(L, window_size) most recent messages of the prior history in their
\* order, then the new user message as the last element, once; retrieval is
\* invoked exactly once per turn, before this call.
C26_ReplyPromptIsSystemWindowUser ==
    (returned.proc # 0 /\ returned.turn.replies >= 1) =>
        LET history == returned.loaded.messages
            L == Len(history)
            n == Min(L, WindowSize)
            prompt == returned.turn.prompt
        IN /\ returned.turn.replies = 1
           /\ returned.turn.searches = 1
           /\ returned.turn.search # "none"
           /\ Len(prompt) = n + 2
           /\ prompt[1].role = "system"
           /\ \A i \in 1..n : prompt[1 + i] = history[L - n + i]
           /\ prompt[n + 2] = UserMsg(returned.request.message)

C26_Witness ==
    /\ returned.response.status = 200
    /\ Len(returned.loaded.messages) = 12
    /\ Len(returned.turn.prompt) = 12
    /\ returned.turn.prompt[2] = returned.loaded.messages[3]
    /\ returned.turn.searches = 1

\* C27: if the message list given to summarize has at most window_size
\* messages, summarize returns the existing summary unchanged and makes no
\* language-model call; otherwise exactly the messages other than the last
\* window_size ones are rendered into the summarization prompt together with
\* the prior summary.
C27_SummarizeFoldsAllButWindow ==
    Called("create_summary") =>
        LET L == Len(fn_in.messages)
            W == fn_in.window_size
        IN IF L <= W
           THEN /\ fn_out.value.summary = fn_in.existing_summary
                /\ ~fn_out.value.calls_llm
           ELSE /\ fn_out.value.calls_llm
                /\ fn_out.value.prompt.messages = SubSeq(fn_in.messages, 1, L - W)
                /\ Truthy(fn_in.existing_summary)
                        => fn_out.value.prompt.previous = fn_in.existing_summary

\* C28: the unsummarized backlog is bounded: in every persisted state
\* message_count - last_summarized_index < summarize_threshold; after 16
\* turns from an empty conversation (message_count = 32) a summary exists.
C28_BacklogBelowThreshold ==
    \A id \in Rows :
        /\ conversations[id].message_count
                - conversations[id].last_summarized_index < SummarizeThreshold
        /\ conversations[id].message_count = 32
                => Truthy(conversations[id].summary)

\* C29: no message drops out of the model's context: at the start of every
\* turn each message of the stored history is inside the window sent to the
\* language model or was part of the input of the summarize call whose
\* result is the persisted summary.
C29_NoMessageDropsOut ==
    \A p \in Procs :
        pc[p] = "process" =>
            LET L == Len(conversation[p].messages)
            IN \A i \in 1..L :
                \/ i > L - WindowSize
                \/ i <= conversation[p].summary.upto

\* C30: persisted facts only grow in keys: a key present in the persisted
\* facts is still present after every later successful turn, and a turn
\* whose extraction omits a key leaves the key's persisted value unchanged.
C30_FactsKeepTheirKeys ==
    [][\A id \in Rows :
        Committed(id) =>
            LET before == conversations[id].context
                after == conversations'[id].context
                extracted ==
                    extract_context(
                        Append(returned'.loaded.messages,
                               UserMsg(returned'.request.message)),
                        worker_set_order[returned'.proc]).value
            IN \A k \in DOMAIN before :
                /\ k \in DOMAIN after
                /\ k \notin DOMAIN extracted => after[k] = before[k]]_vars

====
